---- MODULE Spec2Model ----
(***************************************************************************)
(* A model of jpggps2kml (src/jpggps2kml/jpggps2kml.py).                   *)
(*                                                                         *)
(* Part 1: the sorteditems interval index (class sorteditems), driven by   *)
(*         a client that calls add() and find().                           *)
(***************************************************************************)
EXTENDS Integers, Sequences, FiniteSets, TLC

VARIABLES
    first,        \* sorteditems.first: the linked list, as the sequence of its nodes
    calls,        \* log of the add() calls made and how each ended
    lastFind,     \* the last find() call and what it returned
    entry,        \* which method drives the document build: makekml or appendTrackPlacemarks
    pc,           \* position of the run
    replace,      \* args['replace'] is set
    update,       \* args['update'] is set
    outGiven,     \* args['out'] is set
    outExists,    \* the destination file existed when the run began
    outFile,      \* the destination file: "absent", "old" (as found) or "new" (written)
    docKind,      \* "unset", "fresh" (built from scratch) or "parsed" (update mode)
    trackfolder,  \* children of the tracks folder
    imagefolder,  \* children of the images folder
    colourIndex,  \* self.colourIndex
    colourSetLen, \* self.colourSetLen, 0 while the attribute is unset
    cdatatext,    \* self.cdatatext: caption key -> caption text
    places,       \* appendTrackPlacemarks: the places dictionary
    docAppended,  \* folders appendTrackPlacemarks appended to the document
    nGpx,         \* GPX files handled so far in this run
    nPhotos,      \* JPEG files handled so far in this run
    lastPhoto,    \* the photo handled by the last step
    fpc,          \* findoffset: position of the run
    utc,          \* findoffset: args['utc']
    offset_distribution, \* findoffset: offset in seconds -> number of photos
    localtime,    \* findoffset: the local variable localtime, unbound at first
    report,       \* findoffset: the lines printed after the loop
    nOff,         \* findoffset: JPEG files handled so far
    opc,          \* orientjpeg: position of the run
    todo,         \* orientjpeg: the files of the listing not yet handled
    disk,         \* orientjpeg: what each path of the directory holds
    lastRun       \* orientjpeg: the file of the last step and how jpegtran ended

idxVars == <<first, calls, lastFind>>
kmlVars == <<entry, pc, replace, update, outGiven, outExists, outFile, docKind,
             trackfolder, imagefolder, colourIndex, colourSetLen, cdatatext,
             places, docAppended, nGpx, nPhotos, lastPhoto>>
offVars == <<fpc, utc, offset_distribution, localtime, report, nOff>>
oriVars == <<opc, todo, disk, lastRun>>
vars == <<idxVars, kmlVars, offVars, oriVars>>

(***************************************************************************)
(* Bounds of the model.                                                    *)
(***************************************************************************)
MaxTime == 2
MaxCalls == 3

Times == 0..MaxTime
Items == {"a", "b"}

(***************************************************************************)
(* Part 1: sorteditems                                                     *)
(*                                                                         *)
(* The linked list hanging off self.first is the sequence of its nodes;    *)
(* self.first = None is the empty sequence.  Timestamps are the integers   *)
(* of Times: the code only compares them.                                  *)
(***************************************************************************)
beginenditem(begin, end, item) == [begin |-> begin, end |-> end, item |-> item]

InsertAfter(list, i, node) ==
    SubSeq(list, 1, i) \o <<node>> \o SubSeq(list, i + 1, Len(list))

\* The while loop of add(), with bgi the i-th node.  "exit" is the
\* sys.exit(-1) of the overlap report; "fault" is the unhandled
\* UnboundLocalError of line 100, which reads bginew before it is bound.
RECURSIVE AddWalk(_, _, _, _, _)
AddWalk(list, i, begin, end, item) ==
    LET bgi == list[i]
        hasNext == i < Len(list)
    IN  IF begin > bgi.end /\ hasNext
        THEN AddWalk(list, i + 1, begin, end, item)
        ELSE IF hasNext
             THEN IF end > list[i + 1].begin
                  THEN [out |-> "exit", list |-> list]
                  ELSE [out |-> "ok",
                        list |-> InsertAfter(list, i, beginenditem(begin, end, item))]
             ELSE [out |-> "fault", list |-> list]

\* sorteditems.add: with self.first = None the loop body never runs and the
\* method returns without storing anything (self.first is never assigned).
add(list, begin, end, item) ==
    IF list = <<>>
    THEN [out |-> "ok", list |-> list]
    ELSE AddWalk(list, 1, begin, end, item)

\* The while loop of find(): the index of the node the loop stops at.
RECURSIVE FindWalk(_, _, _)
FindWalk(list, i, here) ==
    IF list[i].end < here /\ i < Len(list)
    THEN FindWalk(list, i + 1, here)
    ELSE i

\* sorteditems.find: bgi.end on self.first = None is an unhandled
\* AttributeError ("fault").
find(list, here) ==
    IF list = <<>>
    THEN [kind |-> "fault", item |-> "-"]
    ELSE LET bgi == list[FindWalk(list, 1, here)]
         IN  IF bgi.begin <= here /\ bgi.end <= here
             THEN [kind |-> "item", item |-> bgi.item]
             ELSE [kind |-> "none", item |-> "-"]

(***************************************************************************)
(* Part 2: the document build (class jpggps2kml)                           *)
(*                                                                         *)
(* An element of the document is a record carrying its tag and the         *)
(* children or text the code gives it.  A tag made by the KML element      *)
(* factory is the local name qualified by the KML namespace.               *)
(***************************************************************************)
MaxFiles == 3
MaxOldTracks == 2
MaxPhotos == 2

ColourSetLen == 6

PlacemarkTag == "{http://www.opengis.net/kml/2.2}Placemark"

\* GPX track points.  A trkpt always has lat and lon; its ele child may be
\* missing.  Distinct points differ in time and in position.
Points == { [lat |-> 1, lon |-> 11, hasEle |-> TRUE,  ele |-> 21, time |-> 1],
            [lat |-> 2, lon |-> 12, hasEle |-> TRUE,  ele |-> 22, time |-> 2],
            [lat |-> 3, lon |-> 13, hasEle |-> FALSE, ele |-> 0,  time |-> 3] }

Pt(k) == CHOOSE p \in Points : p.time = k

\* GPX tracks: a name ("" when the trk has no name child) and its segments.
GpxTracks ==
    { [name |-> "A", segs |-> << <<Pt(1), Pt(2)>> >>],
      [name |-> "",  segs |-> << <<Pt(2)>>, <<Pt(2), Pt(1)>> >>],
      [name |-> "B", segs |-> << <<Pt(1), Pt(3)>> >>] }

TrkA == CHOOSE t \in GpxTracks : t.name = "A"
TrkF == CHOOSE t \in GpxTracks : t.name = ""
TrkB == CHOOSE t \in GpxTracks : t.name = "B"

\* GPX files: the trk elements of each, in document order.
GpxFiles == { <<>>, <<TrkA>>, <<TrkA, TrkF>>, <<TrkF, TrkA, TrkA>>, <<TrkB>> }

FileBase == "f"

KmlTrackInterleaved(seg) ==
    [i \in 1..(2 * Len(seg)) |->
        IF i % 2 = 1
        THEN [tag |-> "when", text |-> <<seg[(i + 1) \div 2].time>>]
        ELSE [tag |-> "coord",
              text |-> <<seg[i \div 2].lon, seg[i \div 2].lat, seg[i \div 2].ele>>]]

\* lines 415-433: the GX.Track of one trkseg: every when element, then
\* every coord element, in the order of the segment's points.
KmlTrack(seg) ==
    [i \in 1..Len(seg) |-> [tag |-> "when", text |-> <<seg[i].time>>]]
    \o [i \in 1..Len(seg) |->
           [tag |-> "coord", text |-> <<seg[i].lon, seg[i].lat, seg[i].ele>>]]

\* lines 423-424: find(ele).text on a trkpt without an ele child is an
\* unhandled AttributeError.
SegFaults(seg) == \E i \in 1..Len(seg) : ~seg[i].hasEle

\* lines 412-434: the tracklist of a trk, or the fault that ends the run at
\* the first trkpt that cannot be read.
TrackList(segs) ==
    IF \E k \in 1..Len(segs) : SegFaults(segs[k])
    THEN [out |-> "fault", tracks |-> <<>>]
    ELSE [out |-> "ok", tracks |-> [k \in 1..Len(segs) |-> KmlTrack(segs[k])]]

\* lines 381-387: the name child's text, or the file's basename.
TrackName(track, filebase) == IF track.name = "" THEN filebase ELSE track.name

\* line 391: trackfolder.findall('GX.Placemark'): the children whose tag is
\* the string searched for.
FindAll(folder, tag) == {i \in 1..Len(folder) : folder[i].tag = tag}

NextColourIndexNoWrap(ci, n) == ci + 1

\* line 402
NextColourIndex(ci, n) == (ci + 1) % n

\* lines 378-445, one iteration: st is the run's state so far
\* [out, folder, ci]; kind is docKind, n is self.colourSetLen.
\*  - update mode leaves trackfolder None: findall is an AttributeError;
\*  - a child matched by findall has no child tagged 'KML.name', so
\*    find('KML.name').text is an AttributeError;
\*  - the folder element has no drop method: with replace set, line 396 is
\*    an AttributeError;
\*  - the new placemark is appended (line 410) before its tracks are read.
ReadOneTrack(st, track, filebase, kind, rep, n) ==
    IF st.out # "ok"
    THEN st
    ELSE IF kind # "fresh"
    THEN [st EXCEPT !.out = "fault"]
    ELSE IF FindAll(st.folder, "GX.Placemark") # {}
    THEN [st EXCEPT !.out = "fault"]
    ELSE IF rep
    THEN [st EXCEPT !.out = "fault"]
    ELSE LET tl == TrackList(track.segs)
             placemark == [tag |-> PlacemarkTag,
                           name |-> TrackName(track, filebase),
                           styleUrl |-> st.ci,
                           tracks |-> tl.tracks]
         IN  [out |-> tl.out,
              folder |-> Append(st.folder, placemark),
              ci |-> NextColourIndex(st.ci, n)]

\* read_track_from_gpx: the loop over the file's trk elements.
RECURSIVE ReadTracks(_, _, _, _, _, _)
ReadTracks(st, tracks, filebase, kind, rep, n) ==
    IF tracks = <<>>
    THEN st
    ELSE ReadTracks(ReadOneTrack(st, Head(tracks), filebase, kind, rep, n),
                    Tail(tracks), filebase, kind, rep, n)


(***************************************************************************)
(* Photos: the tags exiftool returns for one JPEG file.  has says whether  *)
(* the tag is in the dictionary; ref = "" says the Ref tag is not.         *)
(* EXIF stores latitude and longitude as unsigned values, so the raw       *)
(* values are never negative.                                              *)
(***************************************************************************)
Bases == {"a", "b"}

CoordTags(values, refs) ==
    {[has |-> FALSE, v |-> 0, ref |-> ""]}
    \cup {[has |-> TRUE, v |-> v, ref |-> r] : v \in values, r \in refs}

LatTags == CoordTags({0, 5}, {"N", "S"})
LonTags == CoordTags({0, 7}, {"E", "W"})
NoAlt == [has |-> FALSE, v |-> 0]

\* EXIF:GPSStatus ("" when the tag is absent) and EXIF:GPSMeasureMode (0
\* when the tag is absent), two of the tags of self.items (lines 820-827).
NoFix == [status |-> "", mode |-> 0]
FixTags == { NoFix,
             [status |-> "A", mode |-> 3], [status |-> "A", mode |-> 2],
             [status |-> "V", mode |-> 3], [status |-> "A", mode |-> 0],
             [status |-> "",  mode |-> 3], [status |-> "A", mode |-> 1] }

\* DateTimeOriginal: absent, of the form the pattern of lines 524-526
\* matches (date and time are its two groups), or of another form.
DtoTags == { [has |-> FALSE, ok |-> FALSE, date |-> "",   time |-> ""],
             [has |-> TRUE,  ok |-> TRUE,  date |-> "d1", time |-> "t1"],
             [has |-> TRUE,  ok |-> FALSE, date |-> "",   time |-> ""] }

GoodDto == CHOOSE d \in DtoTags : d.ok

\* Every combination of name, latitude, longitude and timestamp without an
\* altitude tag or fix tags, photos that carry an altitude, and photos
\* that carry every combination of the fix tags.
Photos ==
    [base : Bases, lat : LatTags, lon : LonTags, alt : {NoAlt}, dto : DtoTags,
     fix : {NoFix}]
    \cup [base : {"a"}, lat : {[has |-> TRUE, v |-> 5, ref |-> "S"]},
          lon : {[has |-> FALSE, v |-> 0, ref |-> ""],
                 [has |-> TRUE, v |-> 7, ref |-> "E"]},
          alt : {[has |-> TRUE, v |-> 3]}, dto : {GoodDto}, fix : {NoFix}]
    \cup [base : {"b"}, lat : {[has |-> TRUE, v |-> 5, ref |-> "N"]},
          lon : {[has |-> TRUE, v |-> 7, ref |-> "E"]},
          alt : {NoAlt}, dto : {GoodDto}, fix : FixTags]

NoPhoto == [base |-> "", lat |-> [has |-> FALSE, v |-> 0, ref |-> ""],
            lon |-> [has |-> FALSE, v |-> 0, ref |-> ""],
            alt |-> [has |-> FALSE, v |-> 0], fix |-> NoFix,
            dto |-> [has |-> FALSE, ok |-> FALSE, date |-> "", time |-> ""]]

\* A Python value that is None or a number.
NoneV == [set |-> FALSE, v |-> 0]
Val(v) == [set |-> TRUE, v |-> v]
Truthy(x) == x.set /\ x.v # 0

SignedUnsigned(t, neg) == IF t.has THEN Val(t.v) ELSE NoneV

\* lines 506-518 and 699-711: the value of the tag, negated when the Ref
\* tag is present and equals neg.
Signed(t, neg) ==
    IF t.has THEN (IF t.ref = neg THEN Val(-t.v) ELSE Val(t.v)) ELSE NoneV

\* lines 520-521 and 720-721
Altitude(t) == IF t.has THEN t.v ELSE 0

QualifiesWithoutLon(datestr, timestr, lat, lon) ==
    datestr # "" /\ timestr # "" /\ Truthy(lat)

\* lines 540 and 732: datestr and timestr and lat and lon
Qualifies(datestr, timestr, lat, lon) ==
    datestr # "" /\ timestr # "" /\ Truthy(lat) /\ Truthy(lon)

\* Iterating the images folder element (line 477) yields the Folder
\* elements of the document, the tracks folder and the images folder; the
\* one child of each is the Name element the KML factory made.
NameTag == "{http://www.opengis.net/kml/2.2}Name"

FolderSiblings == { [childTag |-> NameTag, text |-> "tracks"],
                    [childTag |-> NameTag, text |-> "images"] }

\* lines 478-479: pm.find('Name') and the comparison of its text.
AlreadyPresent(jpegbase) ==
    \E pm \in FolderSiblings : pm.childTag = "Name" /\ pm.text = jpegbase

\* line 550: datestr + jpegbase
CdataKey(datestr, jpegbase) == <<datestr, jpegbase>>

\* line 551: the dictionary assignment
SetItem(dict, key, text) ==
    {e \in dict : e.key # key} \cup {[key |-> key, text |-> text]}

\* read_image_placemarks_from_jpeg, lines 474-571: st is [out, folder, cdata].
\*  - update mode leaves imagefolder None: iterating it is a TypeError;
\*  - the folder element has no drop method (line 488);
\*  - a DateTimeOriginal the pattern does not match leaves m None, and
\*    m.group is an AttributeError.
ReadImagePlacemark(st, photo, kind, rep) ==
    IF kind # "fresh"
    THEN [st EXCEPT !.out = "fault"]
    ELSE IF AlreadyPresent(photo.base)
    THEN [st EXCEPT !.out = IF rep THEN "fault" ELSE "ok"]
    ELSE IF photo.dto.has /\ ~photo.dto.ok
    THEN [st EXCEPT !.out = "fault"]
    ELSE LET lat == Signed(photo.lat, "S")
             lon == Signed(photo.lon, "W")
             alt == Altitude(photo.alt)
             datestr == photo.dto.date
             timestr == photo.dto.time
             cdatakey == CdataKey(datestr, photo.base)
         IN  IF Qualifies(datestr, timestr, lat, lon)
             THEN [out |-> "ok",
                   folder |-> Append(st.folder,
                                     [tag |-> PlacemarkTag,
                                      name |-> photo.base,
                                      description |-> cdatakey,
                                      lon |-> lon, lat |-> lat, alt |-> alt]),
                   cdata |-> SetItem(st.cdata, cdatakey,
                                     [base |-> photo.base, time |-> timestr,
                                      date |-> datestr])]
             ELSE st

\* appendTrackPlacemarks, lines 683-760, one file of the listing: st is
\* [out, places].  Line 744 calls str.join with two arguments, a TypeError,
\* after lines 735-743 have entered the photo in places.
GatherPhoto(st, photo) ==
    IF ~photo.lon.has
    THEN st
    ELSE IF photo.dto.has /\ ~photo.dto.ok
    THEN [st EXCEPT !.out = "fault"]
    ELSE LET lat == Signed(photo.lat, "S")
             lon == Signed(photo.lon, "W")
             datestr == photo.dto.date
             timestr == photo.dto.time
         IN  IF Qualifies(datestr, timestr, lat, lon)
             THEN [out |-> "fault",
                   places |-> st.places \cup
                       {[date |-> datestr, timefile |-> <<timestr, photo.base>>,
                         filebase |-> photo.base]}]
             ELSE st


(***************************************************************************)
(* Part 3: findoffset and offset_to_string                                 *)
(*                                                                         *)
(* A timestamp the iso8601 pattern matches is the record of its day (an    *)
(* ordinal standing for year, month and day) and its hour, minute and      *)
(* second, as datetime.datetime holds it.  A string is a sequence of       *)
(* pieces of text.                                                         *)
(***************************************************************************)
MaxOffFiles == 4

Stamp(day, h, m, s) == [day |-> day, h |-> h, m |-> m, s |-> s]

SecondOfDay(t) == 3600 * t.h + 60 * t.m + t.s

\* datetime subtraction (line 1012): a timedelta, normalised so that
\* 0 <= seconds < 86400 and days carries the sign.
timedelta(a, b) ==
    LET total == 86400 * (a.day - b.day) + SecondOfDay(a) - SecondOfDay(b)
    IN  [days |-> total \div 86400, seconds |-> total % 86400]

\* line 1014
offset_secs(td) == 86400 * td.days + td.seconds

\* line 1016: the offsets that are warned about and not counted
OutOfRange(secs) == secs <= -86400 \/ secs > 86400

\* A text tag of a photo, or the --utc argument: absent, of the form the
\* iso8601 pattern matches (t is what the groups hold), or of another form.
NoStamp == Stamp(0, 0, 0, 0)
Absent == [has |-> FALSE, ok |-> FALSE, t |-> NoStamp]
Malformed == [has |-> TRUE, ok |-> FALSE, t |-> NoStamp]
Text(t) == [has |-> TRUE, ok |-> TRUE, t |-> t]

NoUtc == Absent
UtcArgs == {NoUtc, Malformed, Text(Stamp(1, 11, 0, 0))}

\* The local variable localtime of findoffset: not yet bound, or a datetime.
Unbound == [bound |-> FALSE, t |-> NoStamp]
Bound(t) == [bound |-> TRUE, t |-> t]

\* The tags get_tags returns for one file (lines 945-949): none says the
\* dictionary is empty; gps is GPSDateStamp and GPSTimeStamp together.
OffsetPhoto(dto, status, gps) ==
    [none |-> FALSE, dto |-> dto, status |-> status, gps |-> gps]

Fixed(local, true) == OffsetPhoto(Text(local), "A", Text(true))

OffsetPhotos ==
    { Fixed(Stamp(1, 12, 0, 0),  Stamp(1, 11, 0, 0)),
      Fixed(Stamp(1, 0, 1, 40),  Stamp(1, 0, 0, 0)),
      Fixed(Stamp(1, 0, 0, 0),   Stamp(1, 0, 0, 50)),
      Fixed(Stamp(1, 0, 0, 0),   Stamp(2, 0, 0, 0)),
      Fixed(Stamp(2, 0, 0, 0),   Stamp(1, 0, 0, 0)),
      Fixed(Stamp(2, 0, 0, 1),   Stamp(1, 0, 0, 0)),
      Fixed(Stamp(1, 0, 0, 0),   Stamp(2, 0, 0, 1)),
      Fixed(Stamp(1, 1, 1, 1),   Stamp(1, 0, 0, 0)),
      Fixed(Stamp(1, 10, 59, 59), Stamp(1, 11, 0, 0)),
      OffsetPhoto(Malformed, "A", Text(Stamp(1, 11, 0, 0))),
      OffsetPhoto(Absent, "A", Text(Stamp(1, 11, 0, 0))),
      OffsetPhoto(Text(Stamp(1, 12, 0, 0)), "V", Text(Stamp(1, 11, 0, 0))),
      OffsetPhoto(Text(Stamp(1, 12, 0, 0)), "", Absent),
      OffsetPhoto(Text(Stamp(1, 12, 0, 0)), "A", Absent),
      OffsetPhoto(Text(Stamp(1, 12, 0, 0)), "A", Malformed),
      [none |-> TRUE, dto |-> Absent, status |-> "", gps |-> Absent] }

\* offset_distribution: a dictionary from offsets to counts.
EmptyDist == [k \in {} |-> 0]

\* lines 1019-1022
Count(dist, k) ==
    [x \in DOMAIN dist \cup {k} |->
        IF x = k THEN (IF k \in DOMAIN dist THEN dist[k] + 1 ELSE 1)
                 ELSE dist[x]]

\* lines 956-976: the match object mutc. --utc decides when it is given;
\* otherwise an active GPSStatus makes the GPS stamps decide, and reading
\* them when they are absent is a KeyError ("fault").
Mutc(photo, utcArg) ==
    IF utcArg.has
    THEN [out |-> "ok", m |-> utcArg]
    ELSE IF photo.status = "A"
    THEN (IF photo.gps.has THEN [out |-> "ok", m |-> photo.gps]
                           ELSE [out |-> "fault", m |-> Absent])
    ELSE [out |-> "ok", m |-> Absent]

\* One iteration of the loop of findoffset, lines 940-1026, on the state
\* [out, localtime, dist, brk].
\*  - an empty tag dictionary is sys.exit(-1);
\*  - without a UTC the file is skipped (continue, which also skips the
\*    break of line 1026);
\*  - tags['EXIF:DateTimeOriginal'] is a KeyError when the tag is absent;
\*  - a DateTimeOriginal the pattern does not match leaves localtime as the
\*    previous iteration left it: an UnboundLocalError at line 1011 when
\*    it was never bound.
FileStep(st, photo, utcArg) ==
    IF photo.none
    THEN [st EXCEPT !.out = "exit"]
    ELSE LET mutc == Mutc(photo, utcArg)
         IN  IF mutc.out = "fault"
             THEN [st EXCEPT !.out = "fault"]
             ELSE IF ~mutc.m.ok
             THEN st
             ELSE IF ~photo.dto.has
             THEN [st EXCEPT !.out = "fault"]
             ELSE LET lt == IF photo.dto.ok THEN Bound(photo.dto.t)
                                            ELSE st.localtime
                  IN  IF ~lt.bound
                      THEN [st EXCEPT !.out = "fault"]
                      ELSE LET secs == offset_secs(timedelta(lt.t, mutc.m.t))
                           IN  [out |-> "ok",
                                localtime |-> lt,
                                dist |-> IF OutOfRange(secs)
                                         THEN st.dist
                                         ELSE Count(st.dist, secs),
                                brk |-> utcArg.has]

\* str.format with {:02d}: the decimal digits, at least two of them.
Digit(d) == <<"0", "1", "2", "3", "4", "5", "6", "7", "8", "9">>[d + 1]

RECURSIVE Digits(_)
Digits(n) == IF n < 10 THEN <<Digit(n)>>
                       ELSE Append(Digits(n \div 10), Digit(n % 10))

D2(n) == IF n < 10 THEN <<"0", Digit(n)>> ELSE Digits(n)

\* offset_to_string, lines 893-907
offset_to_string(offset) ==
    LET sign == IF offset < 0 THEN "-" ELSE "+"
        a == IF offset < 0 THEN -offset ELSE offset
        hrs == a \div 3600
        mins == (a - 3600 * hrs) \div 60
        secs == a - 3600 * hrs - 60 * mins
    IN  <<"-AllDates", sign, "=">> \o D2(hrs) \o <<":">> \o D2(mins)
            \o <<":">> \o D2(secs)

\* sorted(offset_distribution.keys()), line 1035
RECURSIVE Sorted(_)
Sorted(S) ==
    IF S = {} THEN <<>>
    ELSE LET least == CHOOSE x \in S : \A y \in S : x <= y
         IN  <<least>> \o Sorted(S \ {least})

ExceedsOrTies(count, mode_number) == count >= mode_number

\* line 1042
Exceeds(count, mode_number) == count > mode_number

\* lines 1039-1044: the loop over the sorted offsets, from the i-th on
RECURSIVE ModeWalk(_, _, _, _, _)
ModeWalk(dist, offsets, i, mode, mode_number) ==
    IF i > Len(offsets) THEN mode
    ELSE LET count == dist[offsets[i]]
         IN  IF Exceeds(count, mode_number)
             THEN ModeWalk(dist, offsets, i + 1, offsets[i], count)
             ELSE ModeWalk(dist, offsets, i + 1, mode, mode_number)

\* A printed line: its label, the offset it is about, the count (lines of
\* label "count") and the text offset_to_string made (the other lines).
CountLine(offset, n) ==
    [label |-> "count", offset |-> offset, count |-> n, text |-> <<>>]
OffsetLine(label, offset) ==
    [label |-> label, offset |-> offset, count |-> 0,
     text |-> offset_to_string(offset)]

\* lines 1031-1046: what is printed after the loop; offsets[0] of an empty
\* list is an IndexError.
Report(dist) ==
    LET offsets == Sorted(DOMAIN dist)
    IN  IF Len(offsets) = 1
        THEN [out |-> "ok", lines |-> <<OffsetLine("most negative", offsets[1])>>]
        ELSE IF Len(offsets) = 0
        THEN [out |-> "fault", lines |-> <<>>]
        ELSE LET most_negative == offsets[1]
                 mode == ModeWalk(dist, offsets, 1, most_negative,
                                  dist[most_negative])
             IN  [out |-> "ok",
                  lines |-> [i \in 1..Len(offsets) |->
                                CountLine(offsets[i], dist[offsets[i]])]
                            \o <<OffsetLine("most negative", most_negative),
                                 OffsetLine("mode", mode)>>]

(***************************************************************************)
(* Part 4: orientjpeg                                                      *)
(*                                                                         *)
(* The directory holds JPEG files; one of them has the name jpegtran's     *)
(* output for another gets ('new' + f, line 1209).  A path holds the file  *)
(* as found ("orig"), a complete output of jpegtran ("out"), what a failed *)
(* jpegtran left behind ("partial"), or nothing ("absent").                *)
(***************************************************************************)
DirFiles == {"a.jpg", "newa.jpg", "b.jpg"}

\* line 1209: newf = 'new' + f
NewOf(f) == CASE f = "a.jpg" -> "newa.jpg"
              [] f = "newa.jpg" -> "newnewa.jpg"
              [] f = "b.jpg" -> "newb.jpg"

DirPaths == DirFiles \cup {NewOf(f) : f \in DirFiles}

\* EXIF:Orientation as get_tags returns it: absent, or a number.
NoOrientation == [has |-> FALSE, v |-> 0]
Orientations ==
    {NoOrientation} \cup {[has |-> TRUE, v |-> v] : v \in {0, 1, 6, 8, 9}}

\* How subprocess.call ends: the exit status of jpegtran, or an OSError
\* when it cannot be started; wrote says whether a jpegtran that failed
\* had already created its output file.
Endings == { [kind |-> "status", status |-> 0, wrote |-> TRUE],
             [kind |-> "status", status |-> 1, wrote |-> FALSE],
             [kind |-> "status", status |-> 1, wrote |-> TRUE],
             [kind |-> "oserror", status |-> 0, wrote |-> FALSE] }

NoRun == [file |-> "", ran |-> FALSE, kind |-> "", status |-> 0]

\* lines 1194-1201: the table of jpegtran switches has eight rows
TransformLen == 8

KeepsOriginalNever(output) == FALSE

\* line 1228: if not output
KeepsOriginal(output) == output # 0

\* One file of the listing, lines 1208-1235, on the state [out, disk, ran].
\*  - tags['EXIF:Orientation'] is a KeyError when the tag is absent, as it
\*    is for a path that holds no file;
\*  - orientation 0 leaves the file alone;
\*  - transform[orient - 1] is an IndexError beyond the table;
\*  - an OSError of subprocess.call is raised again by the handler;
\*  - after exit status 0 the file is removed and the output renamed to it.
OrientFile(d, f, orient, ending) ==
    IF d[f] = "absent" \/ ~orient.has
    THEN [out |-> "fault", disk |-> d, ran |-> FALSE]
    ELSE IF orient.v = 0
    THEN [out |-> "ok", disk |-> d, ran |-> FALSE]
    ELSE IF orient.v > TransformLen
    THEN [out |-> "fault", disk |-> d, ran |-> FALSE]
    ELSE IF ending.kind = "oserror"
    THEN [out |-> "fault", disk |-> d, ran |-> TRUE]
    ELSE LET written == IF ending.status = 0 THEN "out" ELSE "partial"
             after == IF ending.wrote \/ ending.status = 0
                      THEN [d EXCEPT ![NewOf(f)] = written]
                      ELSE d
         IN  IF KeepsOriginal(ending.status)
             THEN [out |-> "ok", disk |-> after, ran |-> TRUE]
             ELSE [out |-> "ok",
                   disk |-> [after EXCEPT ![f] = after[NewOf(f)],
                                          ![NewOf(f)] = "absent"],
                   ran |-> TRUE]

NoFind == [here |-> -1, kind |-> "nocall", item |-> "-"]

InitIndex ==
    /\ first = <<>>
    /\ calls = <<>>
    /\ lastFind = NoFind

\* The state before a run: the arguments and whether the destination exists.
InitKml ==
    /\ entry \in {"makekml", "append"}
    /\ pc = "start"
    /\ replace \in BOOLEAN
    /\ update \in BOOLEAN
    /\ outGiven \in BOOLEAN
    /\ outExists \in BOOLEAN
    /\ outExists => outGiven
    /\ outFile = IF outExists THEN "old" ELSE "absent"
    /\ docKind = "unset"
    /\ trackfolder = <<>>
    /\ imagefolder = <<>>
    /\ colourIndex = 0
    /\ colourSetLen = 0
    /\ cdatatext = {}
    /\ places = {}
    /\ docAppended = <<>>
    /\ nGpx = 0
    /\ nPhotos = 0
    /\ lastPhoto = NoPhoto

\* findoffset before its loop (lines 926-938); utc is chosen by the first step.
InitOffset ==
    /\ fpc = "start"
    /\ utc = NoUtc
    /\ offset_distribution = EmptyDist
    /\ localtime = Unbound
    /\ report = <<>>
    /\ nOff = 0

\* orientjpeg before its loop (lines 1191-1208): every JPEG of the
\* directory as found, no output file of jpegtran yet.
InitOrient ==
    /\ opc = "start"
    /\ todo = DirFiles
    /\ disk = [p \in DirPaths |-> IF p \in DirFiles THEN "orig" ELSE "absent"]
    /\ lastRun = NoRun

Init == InitIndex /\ InitKml /\ InitOffset /\ InitOrient

\* A client calls add(begin, end, item); the call and its outcome are logged.
Add(begin, end, item) ==
    /\ Len(calls) < MaxCalls
    /\ begin <= end
    /\ LET r == add(first, begin, end, item)
       IN  /\ first' = r.list
           /\ calls' = Append(calls, [begin |-> begin, end |-> end, item |-> item,
                                      out |-> r.out, mutated |-> r.list # first])
    /\ lastFind' = NoFind
    /\ UNCHANGED <<kmlVars, offVars, oriVars>>

\* A client calls find(here) on the index as it stands.
Find(here) ==
    /\ LET r == find(first, here)
       IN  lastFind' = [here |-> here, kind |-> r.kind, item |-> r.item]
    /\ UNCHANGED <<first, calls>>
    /\ UNCHANGED <<kmlVars, offVars, oriVars>>

\* makekml lines 814-830 with makeKmlDoc (lines 577-651); a caller of
\* appendTrackPlacemarks calls makeKmlDoc itself.
\*  - makekml without --out is sys.exit(-1);
\*  - update mode opens args['out'] for reading (a KeyError without the
\*    argument, a FileNotFoundError without the file); KML.parse(f) is the
\*    element factory making an element named parse, not a parser, so
\*    whatever the file holds (oldTracks track placemarks in its tracks
\*    folder) both doc.find calls return None, line 593 is skipped, the
\*    cursor stays 0 and self.colourSetLen stays unset.
MakeKmlDoc(oldTracks) ==
    /\ pc = "start"
    /\ IF entry = "makekml" /\ ~outGiven
       THEN /\ pc' = "exit"
            /\ UNCHANGED <<docKind, colourSetLen, cdatatext, colourIndex>>
       ELSE /\ cdatatext' = {}
            /\ colourIndex' = 0
            /\ IF update
               THEN IF outGiven /\ outFile # "absent"
                    THEN /\ docKind' = "parsed"
                         /\ pc' = IF entry = "makekml" THEN "gpx" ELSE "gather"
                         /\ UNCHANGED colourSetLen
                    ELSE /\ pc' = "fault"
                         /\ UNCHANGED <<docKind, colourSetLen>>
               ELSE /\ docKind' = "fresh"
                    /\ colourSetLen' = ColourSetLen
                    /\ pc' = IF entry = "makekml" THEN "gpx" ELSE "gather"
    /\ UNCHANGED <<entry, replace, update, outGiven, outExists, outFile,
                   trackfolder, imagefolder, places, docAppended, nGpx,
                   nPhotos, lastPhoto>>
    /\ UNCHANGED <<idxVars, offVars, oriVars>>

\* makekml lines 833-837: read_track_from_gpx on the next GPX file.
ReadTrackFromGpx(tracks) ==
    /\ pc = "gpx"
    /\ nGpx + nPhotos < MaxFiles
    /\ LET r == ReadTracks([out |-> "ok", folder |-> trackfolder, ci |-> colourIndex],
                           tracks, FileBase, docKind, replace, colourSetLen)
       IN  /\ trackfolder' = r.folder
           /\ colourIndex' = r.ci
           /\ pc' = IF r.out = "ok" THEN "gpx" ELSE "fault"
    /\ nGpx' = nGpx + 1
    /\ UNCHANGED <<entry, replace, update, outGiven, outExists, outFile, docKind,
                   imagefolder, colourSetLen, cdatatext, places, docAppended,
                   nPhotos, lastPhoto>>
    /\ UNCHANGED <<idxVars, offVars, oriVars>>

\* makekml line 840: the GPX files are exhausted, the JPEG files follow.
EndGpx ==
    /\ pc = "gpx"
    /\ pc' = "jpeg"
    /\ UNCHANGED <<entry, replace, update, outGiven, outExists, outFile, docKind,
                   trackfolder, imagefolder, colourIndex, colourSetLen, cdatatext,
                   places, docAppended, nGpx, nPhotos, lastPhoto>>
    /\ UNCHANGED <<idxVars, offVars, oriVars>>

\* makekml lines 841-852: read_image_placemarks_from_jpeg on the next JPEG.
ReadImage(photo) ==
    /\ pc = "jpeg"
    /\ nGpx + nPhotos < MaxFiles
    /\ nPhotos < MaxPhotos
    /\ LET r == ReadImagePlacemark([out |-> "ok", folder |-> imagefolder,
                                    cdata |-> cdatatext],
                                   photo, docKind, replace)
       IN  /\ imagefolder' = r.folder
           /\ cdatatext' = r.cdata
           /\ pc' = IF r.out = "ok" THEN "jpeg" ELSE "fault"
    /\ nPhotos' = nPhotos + 1
    /\ lastPhoto' = photo
    /\ UNCHANGED <<entry, replace, update, outGiven, outExists, outFile, docKind,
                   trackfolder, colourIndex, colourSetLen, places, docAppended,
                   nGpx>>
    /\ UNCHANGED <<idxVars, offVars, oriVars>>

\* makekml lines 854-872: serialise, then write the destination unless it
\* is a file and update is set, in which case report and sys.exit(-1).
WriteKml ==
    /\ pc = "jpeg"
    /\ IF outFile = "absent" \/ ~update
       THEN /\ outFile' = "new"
            /\ pc' = "done"
       ELSE /\ pc' = "exit"
            /\ UNCHANGED outFile
    /\ UNCHANGED <<entry, replace, update, outGiven, outExists, docKind,
                   trackfolder, imagefolder, colourIndex, colourSetLen, cdatatext,
                   places, docAppended, nGpx, nPhotos, lastPhoto>>
    /\ UNCHANGED <<idxVars, offVars, oriVars>>

\* appendTrackPlacemarks lines 678-760: the next file of the directory.
AppendGather(photo) ==
    /\ pc = "gather"
    /\ nPhotos < MaxPhotos
    /\ LET r == GatherPhoto([out |-> "ok", places |-> places], photo)
       IN  /\ places' = r.places
           /\ pc' = IF r.out = "ok" THEN "gather" ELSE "fault"
    /\ nPhotos' = nPhotos + 1
    /\ lastPhoto' = photo
    /\ UNCHANGED <<entry, replace, update, outGiven, outExists, outFile, docKind,
                   trackfolder, imagefolder, colourIndex, colourSetLen, cdatatext,
                   docAppended, nGpx>>
    /\ UNCHANGED <<idxVars, offVars, oriVars>>

\* appendTrackPlacemarks lines 762-807: one track placemark per date of
\* places, then the two folders are appended to the document.  An entry of
\* places has no 'time' key (line 744 faulted before setting it), so line
\* 781 could only fault.
AppendBuild ==
    /\ pc = "gather"
    /\ IF places = {}
       THEN /\ docAppended' = docAppended \o <<[kids |-> <<>>], [kids |-> <<>>]>>
            /\ pc' = "done"
       ELSE /\ pc' = "fault"
            /\ UNCHANGED docAppended
    /\ UNCHANGED <<entry, replace, update, outGiven, outExists, outFile, docKind,
                   trackfolder, imagefolder, colourIndex, colourSetLen, cdatatext,
                   places, nGpx, nPhotos, lastPhoto>>
    /\ UNCHANGED <<idxVars, offVars, oriVars>>

\* findoffset lines 926-938: the arguments are read; without a file or a
\* directory the run is sys.exit(-1).
FindOffsetStart(utcArg, anyInput) ==
    /\ fpc = "start"
    /\ utc' = utcArg
    /\ fpc' = IF anyInput THEN "loop" ELSE "exit"
    /\ UNCHANGED <<offset_distribution, localtime, report, nOff>>
    /\ UNCHANGED <<idxVars, kmlVars, oriVars>>

\* findoffset lines 940-1026: the next JPEG file of jpegiter.
FindOffsetFile(photo) ==
    /\ fpc = "loop"
    /\ nOff < MaxOffFiles
    /\ LET r == FileStep([out |-> "ok", localtime |-> localtime,
                          dist |-> offset_distribution, brk |-> FALSE],
                         photo, utc)
       IN  /\ localtime' = r.localtime
           /\ offset_distribution' = r.dist
           /\ fpc' = IF r.out # "ok" THEN r.out
                     ELSE IF r.brk THEN "report" ELSE "loop"
    /\ nOff' = nOff + 1
    /\ UNCHANGED <<utc, report>>
    /\ UNCHANGED <<idxVars, kmlVars, oriVars>>

\* findoffset lines 1028-1046, once the loop has ended (jpegiter is
\* exhausted, or the break of line 1026 was taken).
FindOffsetReport ==
    /\ fpc \in {"loop", "report"}
    /\ LET r == Report(offset_distribution)
       IN  /\ report' = r.lines
           /\ fpc' = IF r.out = "ok" THEN "done" ELSE "fault"
    /\ UNCHANGED <<utc, offset_distribution, localtime, nOff>>
    /\ UNCHANGED <<idxVars, kmlVars, oriVars>>

\* orientjpeg lines 1191-1208: the directory is listed.
OrientStart ==
    /\ opc = "start"
    /\ opc' = "loop"
    /\ UNCHANGED <<todo, disk, lastRun>>
    /\ UNCHANGED <<idxVars, kmlVars, offVars>>

\* orientjpeg lines 1208-1235: the next file of the listing.
OrientNext(f, orient, ending) ==
    /\ opc = "loop"
    /\ f \in todo
    /\ LET r == OrientFile(disk, f, orient, ending)
       IN  /\ disk' = r.disk
           /\ opc' = IF r.out = "ok" THEN "loop" ELSE "fault"
           /\ lastRun' = [file |-> f, ran |-> r.ran,
                          kind |-> IF r.ran THEN ending.kind ELSE "",
                          status |-> IF r.ran THEN ending.status ELSE 0]
    /\ todo' = todo \ {f}
    /\ UNCHANGED <<idxVars, kmlVars, offVars>>

\* orientjpeg: the listing is exhausted.
OrientEnd ==
    /\ opc = "loop"
    /\ todo = {}
    /\ opc' = "done"
    /\ UNCHANGED <<todo, disk, lastRun>>
    /\ UNCHANGED <<idxVars, kmlVars, offVars>>

NextIndex ==
    \/ \E begin \in Times, end \in Times, item \in Items : Add(begin, end, item)
    \/ \E here \in Times : Find(here)

NextKml ==
    \/ \E oldTracks \in 0..MaxOldTracks : MakeKmlDoc(oldTracks)
    \/ \E tracks \in GpxFiles : ReadTrackFromGpx(tracks)
    \/ EndGpx
    \/ \E photo \in Photos : ReadImage(photo)
    \/ WriteKml
    \/ \E photo \in Photos : AppendGather(photo)
    \/ AppendBuild

\* The index on its own: the document build stays in one initial state.
InitIndexOnly ==
    Init /\ entry = "makekml" /\ ~replace /\ ~update /\ ~outGiven

SpecIndex == InitIndexOnly /\ [][NextIndex]_vars

NextOffset ==
    \/ \E utcArg \in UtcArgs, anyInput \in BOOLEAN :
           FindOffsetStart(utcArg, anyInput)
    \/ \E photo \in OffsetPhotos : FindOffsetFile(photo)
    \/ FindOffsetReport

NextOrient ==
    \/ OrientStart
    \/ \E f \in DirFiles, orient \in Orientations, ending \in Endings :
           OrientNext(f, orient, ending)
    \/ OrientEnd

\* findoffset on its own.
SpecOffset == InitIndexOnly /\ [][NextOffset]_vars

\* orientjpeg on its own.
SpecOrient == InitIndexOnly /\ [][NextOrient]_vars

\* The document build on its own: every run of makekml, and every use of
\* appendTrackPlacemarks on a document makeKmlDoc made.
SpecKml == Init /\ [][NextKml]_vars

(***************************************************************************)
(* Claims about the interval index                                         *)
(***************************************************************************)
Overlap(x, y) == x.begin <= y.end /\ y.begin <= x.end

Accepted == {i \in 1..Len(calls) : calls[i].out = "ok"}

AcceptedDisjoint ==
    \A i \in Accepted, j \in Accepted : i # j => ~Overlap(calls[i], calls[j])

Containing(here) ==
    {i \in Accepted : calls[i].begin <= here /\ here <= calls[i].end}

\* C1: once pairwise non-overlapping intervals have been inserted with add()
\* into an initially empty index, find(p) returns the item of the interval
\* that contains p, and None when no inserted interval contains p.
C1_FindReturnsPayload ==
    (Len(calls) >= 1 /\ AcceptedDisjoint /\ lastFind # NoFind) =>
        IF Containing(lastFind.here) # {}
        THEN /\ lastFind.kind = "item"
             /\ \E i \in Containing(lastFind.here) : lastFind.item = calls[i].item
        ELSE lastFind.kind = "none"

\* C2: an add() whose range intersects the range of an interval that an
\* earlier add() put into the index fails (error outcome) and leaves the
\* index as it was.
C2_OverlappingAddFails ==
    \A j \in 1..Len(calls) :
        (\E i \in Accepted : i < j /\ Overlap(calls[i], calls[j])) =>
            /\ calls[j].out # "ok"
            /\ ~calls[j].mutated

(***************************************************************************)
(* Claims about the document build                                         *)
(***************************************************************************)
NamesIn(folder) == {folder[i].name : i \in 1..Len(folder)}

NamedIn(folder, name) == {i \in 1..Len(folder) : folder[i].name = name}

TrackNames(tracks) == {TrackName(tracks[k], FileBase) : k \in 1..Len(tracks)}

\* Every trkpt of the file has the ele child read_track_from_gpx reads.
Readable(tracks) == \A k \in 1..Len(tracks) : TrackList(tracks[k].segs).out = "ok"

\* The last trk of the file that carries the name.
LastNamed(tracks, name) ==
    LET ks == {k \in 1..Len(tracks) : TrackName(tracks[k], FileBase) = name}
    IN  tracks[CHOOSE k \in ks : \A j \in ks : j <= k]

\* C4: without replace, a GPX track whose name is the name of a placemark
\* already in the tracks folder is skipped: read_track_from_gpx leaves the
\* tracks folder and the palette cursor as they were.
C4_SameNameSkipped ==
    [][\A tracks \in GpxFiles :
          (/\ ~replace
           /\ tracks # <<>>
           /\ TrackNames(tracks) \subseteq NamesIn(trackfolder)
           /\ ReadTrackFromGpx(tracks))
          => (trackfolder' = trackfolder /\ colourIndex' = colourIndex)]_vars

\* C5: with replace, read_track_from_gpx ends without error and leaves, for
\* each track name of the file, exactly one placemark of that name in the
\* tracks folder, the one newly built from the file.
C5_ReplaceLeavesOneNew ==
    [][\A tracks \in GpxFiles :
          (/\ replace
           /\ docKind = "fresh"
           /\ tracks # <<>>
           /\ Readable(tracks)
           /\ ReadTrackFromGpx(tracks))
          => /\ pc' = "gpx"
             /\ \A name \in TrackNames(tracks) :
                    /\ Cardinality(NamedIn(trackfolder', name)) = 1
                    /\ \A i \in NamedIn(trackfolder', name) :
                           trackfolder'[i].tracks =
                               TrackList(LastNamed(tracks, name).segs).tracks]_vars

\* C6: makekml writes the destination only if it did not exist or update
\* was requested; when it exists and update was not requested the run ends
\* with a non-zero exit and the file is as it was.
C6_NoOverwriteWithoutUpdate ==
    entry = "makekml" =>
        /\ outFile = "new" => (~outExists \/ update)
        /\ (pc \in {"done", "exit", "fault"} /\ outExists /\ ~update)
               => (pc # "done" /\ outFile = "old")

\* The children of a track: all the when elements, then as many coord
\* elements, the i-th coord of the same GPX point as the i-th when.
TrackAligned(t) ==
    LET n == Len(t) \div 2
    IN  /\ Len(t) = 2 * n
        /\ \A i \in 1..n :
               /\ t[i].tag = "when"
               /\ t[n + i].tag = "coord"
               /\ \E p \in Points : /\ t[i].text = <<p.time>>
                                    /\ t[n + i].text = <<p.lon, p.lat, p.ele>>

\* C7: every track built, from a GPX segment or from a date's photos, holds
\* its when elements before its coord elements, as many of each, the i-th
\* coord of the same source point as the i-th when.
C7_WhenBeforeCoordAligned ==
    /\ \A i \in 1..Len(trackfolder) :
           \A k \in 1..Len(trackfolder[i].tracks) :
               TrackAligned(trackfolder[i].tracks[k])
    /\ \A f \in 1..Len(docAppended) :
           \A j \in 1..Len(docAppended[f].kids) :
               TrackAligned(docAppended[f].kids[j].track)

\* A placemark of two tracks whose second has two points.
C7_Witness ==
    \E i \in 1..Len(trackfolder) :
        /\ Len(trackfolder[i].tracks) = 2
        /\ Len(trackfolder[i].tracks[2]) = 4
        /\ TrackAligned(trackfolder[i].tracks[2])

\* C8: in a fresh document build the k-th track placemark created has
\* colour slot (k-1) mod N, N the palette size, and the palette cursor
\* stays within 0..N-1.
C8_ColourCycles ==
    docKind = "fresh" =>
        /\ colourIndex \in 0..(colourSetLen - 1)
        /\ \A k \in 1..Len(trackfolder) :
               trackfolder[k].styleUrl = (k - 1) % colourSetLen

\* The (N+1)-th track placemark has the slot of the first.
C8_Witness ==
    /\ docKind = "fresh"
    /\ Len(trackfolder) > colourSetLen
    /\ trackfolder[colourSetLen + 1].styleUrl = trackfolder[1].styleUrl

\* C9: the placemark of an accepted photo has a negative latitude when
\* GPSLatitudeRef is S and a non-negative one when it is N, a negative
\* longitude when GPSLongitudeRef is W and a non-negative one when it is E.
C9_HemisphereSign ==
    [][(pc = "jpeg" /\ imagefolder' # imagefolder) =>
          LET pm == imagefolder'[Len(imagefolder')]
              photo == lastPhoto'
          IN  /\ pm.lat.set /\ pm.lon.set
              /\ photo.lat.ref = "S" => pm.lat.v < 0
              /\ photo.lat.ref = "N" => pm.lat.v >= 0
              /\ photo.lon.ref = "W" => pm.lon.v < 0
              /\ photo.lon.ref = "E" => pm.lon.v >= 0]_vars

\* The photo just read is in the southern and western hemispheres and its
\* placemark is the last of the images folder.
C9_Witness ==
    /\ pc = "jpeg"
    /\ nPhotos = 1
    /\ Len(imagefolder) = 1
    /\ lastPhoto.lat.ref = "S"
    /\ lastPhoto.lon.ref = "W"
    /\ imagefolder[1].lat.v < 0
    /\ imagefolder[1].lon.v < 0

\* C10: a photo without the GPSLongitude tag gets no placemark and no
\* caption entry, whatever its other tags.
C10_NoLongitudeNoPlacemark ==
    [][(nPhotos' = nPhotos + 1 /\ ~lastPhoto'.lon.has) =>
          /\ imagefolder' = imagefolder
          /\ cdatatext' = cdatatext
          /\ docAppended' = docAppended]_vars

\* read_image_placemarks_from_jpeg has returned from a photo that has a
\* latitude, an altitude and a timestamp but no longitude.
C10_Witness ==
    /\ pc = "jpeg"
    /\ docKind = "fresh"
    /\ nPhotos >= 1
    /\ ~lastPhoto.lon.has
    /\ lastPhoto.lat.has /\ lastPhoto.lat.v # 0
    /\ lastPhoto.alt.has
    /\ lastPhoto.dto.ok

(***************************************************************************)
(* Claims about findoffset                                                 *)
(***************************************************************************)
Seconds(t) == 86400 * t.day + SecondOfDay(t)

Abs(n) == IF n < 0 THEN -n ELSE n

\* The sign, then HH:MM:SS, of an offset in seconds.
SignedHMS(n) ==
    <<IF n < 0 THEN "-" ELSE "+">>
        \o D2(Abs(n) \div 3600) \o <<":">>
        \o D2((Abs(n) % 3600) \div 60) \o <<":">>
        \o D2(Abs(n) % 60)

\* The UTC findoffset uses for a photo.
UtcOf(photo) == Mutc(photo, utc).m

\* C11: the offset findoffset counts for a photo of local time L and true
\* UTC U is L - U in whole seconds, and every offset s with |s| <= 86400
\* that is reported is rendered as its sign, '+' for s >= 0 and '-' for
\* s < 0, followed by HH:MM:SS with 3600*HH + 60*MM + SS = |s|.
C11_OffsetSignedHMS ==
    [][/\ \A photo \in OffsetPhotos :
             (/\ FindOffsetFile(photo)
              /\ photo.dto.ok
              /\ offset_distribution' # offset_distribution)
             => offset_distribution' =
                    Count(offset_distribution,
                          Seconds(photo.dto.t) - Seconds(UtcOf(photo).t))
       /\ \A i \in 1..Len(report') :
             (report'[i].label # "count" /\ Abs(report'[i].offset) <= 86400)
             => report'[i].text = SignedHMS(report'[i].offset)]_vars

Keys == DOMAIN offset_distribution

MostNegative == CHOOSE k \in Keys : \A x \in Keys : k <= x

Modal == {k \in Keys : \A x \in Keys : offset_distribution[x] <= offset_distribution[k]}

SmallestModal == CHOOSE k \in Modal : \A x \in Modal : k <= x

Reported(label) == {report[i].offset : i \in {j \in 1..Len(report) : report[j].label = label}}

\* C12 as stated: whenever the histogram is not empty, findoffset reports
\* the most negative offset and the modal offset, the smallest of the
\* offsets of highest count.
C12_ReportsBoth ==
    (fpc = "done" /\ Keys # {}) =>
        /\ Reported("most negative") = {MostNegative}
        /\ Reported("mode") = {SmallestModal}

\* C12 amended: with two or more offsets in the histogram findoffset
\* reports the most negative offset and the modal offset, the smallest of
\* the offsets of highest count; with exactly one offset it reports that
\* offset once, as the most negative, and no mode.
C12_ReportsBothWhenSeveral ==
    (fpc = "done" /\ Keys # {}) =>
        /\ Reported("most negative") = {MostNegative}
        /\ Reported("mode") = IF Cardinality(Keys) >= 2 THEN {SmallestModal}
                                                        ELSE {}

\* Two offsets share the highest count, and the smaller of the two is
\* reported as the mode.
C12_Witness ==
    /\ fpc = "done"
    /\ Cardinality(Modal) >= 2
    /\ Reported("mode") = {SmallestModal}
    /\ \E k \in Modal : k # SmallestModal /\ k > SmallestModal

\* C13: an offset findoffset computes is left out of the histogram exactly
\* when its absolute value exceeds 86400 seconds.
C13_OutlierExactlyBeyondDay ==
    [][\A photo \in OffsetPhotos :
          (/\ FindOffsetFile(photo)
           /\ fpc' \in {"loop", "report"}
           /\ UtcOf(photo).ok)
          => LET secs == Seconds(localtime'.t) - Seconds(UtcOf(photo).t)
             IN  IF Abs(secs) > 86400
                 THEN offset_distribution' = offset_distribution
                 ELSE offset_distribution' = Count(offset_distribution, secs)]_vars

(***************************************************************************)
(* Further claims about the document build                                 *)
(***************************************************************************)
\* C14: during makekml a photo whose DateTimeOriginal does not match the
\* pattern is skipped: it gets no placemark and the run goes on to the
\* next photo.
C14_MalformedTimestampSkipped ==
    [][\A photo \in Photos :
          (/\ docKind = "fresh"
           /\ photo.dto.has /\ ~photo.dto.ok
           /\ ReadImage(photo))
          => (pc' = "jpeg" /\ imagefolder' = imagefolder)]_vars

\* C15: a photo gets a placemark only if its GPSStatus tag is present and
\* active and its GPSMeasureMode tag is present and says 2-D or 3-D.
C15_OnlyValidFix ==
    [][\A photo \in Photos :
          (ReadImage(photo) /\ imagefolder' # imagefolder)
          => (photo.fix.status = "A" /\ photo.fix.mode \in {2, 3})]_vars

\* C17: a run never gets as far as two placemarks of the same caption key:
\* the second qualifying photo with a key already used aborts it.
C17_DuplicateKeyAborts ==
    \A i \in 1..Len(imagefolder) : \A j \in 1..Len(imagefolder) :
        i # j => imagefolder[i].description # imagefolder[j].description

PhotoDates == {imagefolder[i].description[1] : i \in 1..Len(imagefolder)}

\* C18: a makekml run (here one without GPX files) ends with one track
\* placemark in the tracks folder per distinct date among the qualifying
\* photos.
C18_TrackPerDate ==
    (entry = "makekml" /\ pc = "done" /\ nGpx = 0) =>
        Len(trackfolder) = Cardinality(PhotoDates)

(***************************************************************************)
(* Further claims about sorteditems                                        *)
(***************************************************************************)
Ascending(list) ==
    \A i \in 1..Len(list) : \A j \in 1..Len(list) :
        i < j => list[i].begin < list[j].begin

\* C19: an add() whose range overlaps no stored interval stores the new
\* interval, and the list stays in strictly ascending order of begin.
C19_AddStoresSorted ==
    [][\A begin \in Times, end \in Times, item \in Items :
          (/\ Add(begin, end, item)
           /\ \A i \in 1..Len(first) :
                  ~Overlap(first[i], [begin |-> begin, end |-> end]))
          => /\ \E i \in 1..Len(first') :
                    first'[i] = beginenditem(begin, end, item)
             /\ Ascending(first')]_vars

\* C20: find(p) on an index that holds nothing returns None and does not
\* raise.
C20_FindOnEmptyReturnsNone ==
    (first = <<>> /\ lastFind # NoFind) => lastFind.kind = "none"

(***************************************************************************)
(* Claims about orientjpeg                                                 *)
(***************************************************************************)
\* C16: what the path of a JPEG holds changes in the step that handles it
\* only after jpegtran ended with exit status 0, and then to jpegtran's
\* output; after a jpegtran that failed or could not be started the file
\* is as it was.
C16_OriginalKeptUnlessSuccess ==
    [][\A f \in DirFiles :
          (todo' = todo \ {f} /\ f \in todo /\ disk'[f] # disk[f])
          => /\ lastRun'.ran
             /\ lastRun'.kind = "status"
             /\ lastRun'.status = 0
             /\ disk'[f] = "out"]_vars

\* jpegtran has just failed on a file after creating its output file, and
\* the file is as it was found.
C16_Witness ==
    /\ opc = "loop"
    /\ lastRun.ran
    /\ lastRun.kind = "status"
    /\ lastRun.status # 0
    /\ disk[lastRun.file] = "orig"
    /\ disk[NewOf(lastRun.file)] = "partial"

(***************************************************************************)
(* Claims about update mode, the images folder and findoffset batches      *)
(***************************************************************************)
\* C21: makeKmlDoc in update mode on an existing document whose tracks
\* folder holds k track placemarks sets the palette cursor to k mod N,
\* N the palette size.
C21_CursorRecovered ==
    [][\A k \in 0..MaxOldTracks :
          (update /\ MakeKmlDoc(k) /\ docKind' = "parsed")
          => colourIndex' = k % ColourSetLen]_vars

\* C23: the images folder never holds two placemarks of the same photo
\* label.
C23_OnePlacemarkPerLabel ==
    \A i \in 1..Len(imagefolder) : \A j \in 1..Len(imagefolder) :
        i # j => imagefolder[i].name # imagefolder[j].name

\* C24: in batch mode (no --utc) a photo whose DateTimeOriginal the pattern
\* does not match adds nothing to the histogram.
C24_UnparsedLocalAddsNothing ==
    [][\A photo \in OffsetPhotos :
          (/\ ~utc.has
           /\ photo.dto.has /\ ~photo.dto.ok
           /\ FindOffsetFile(photo))
          => offset_distribution' = offset_distribution]_vars

\* C25: a photo with a timestamp the pattern matches, a latitude and a
\* longitude gets exactly one placemark, also when the latitude or the
\* longitude is 0.
C25_EveryPositionPlaced ==
    [][\A photo \in Photos :
          (/\ docKind = "fresh"
           /\ photo.dto.ok /\ photo.lat.has /\ photo.lon.has
           /\ ReadImage(photo))
          => /\ Len(imagefolder') = Len(imagefolder) + 1
             /\ imagefolder'[Len(imagefolder')].name = photo.base]_vars

\* C26: once the loop over a batch of photos has ended, the reporting step
\* of findoffset ends normally, also when no photo of the batch put an
\* offset into the histogram.
C26_ReportEndsNormally ==
    [][(nOff >= 1 /\ FindOffsetReport) => fpc' = "done"]_vars

====
